---------------------------- MODULE Spec2Model ----------------------------
(***************************************************************************)
(* Conway's Game of Life on a sparse set of live-cell coordinates, as      *)
(* implemented by struct Coordinate and class Life in src/Source.cpp.      *)
(*                                                                         *)
(* The program state is the Life object: LiveCells, gen and                *)
(* LiveCellsNextGen.  Every public member function is one action.  The     *)
(* remaining variables are history variables that record the initial       *)
(* configuration and the last call made on the object, so that the         *)
(* properties of a call can be stated over single states.                  *)
(*                                                                         *)
(* Coordinates are C++ ints and gen is a C++ unsigned.  The initial cells  *)
(* are the origin and its eight neighbours, as in the scenarios of the     *)
(* source, and gen is capped by MaxGen, so every coordinate and counter    *)
(* value that occurs is far from the limits of its type and the            *)
(* arithmetic below is exact.                                              *)
(***************************************************************************)
EXTENDS Integers, FiniteSets, Sequences

VARIABLES
    LiveCells,          \* Life::LiveCells, the live cells of the current generation
    gen,                \* Life::gen, the current generation
    LiveCellsNextGen,   \* Life::LiveCellsNextGen, the buffer for the next generation
    LiveCells0,         \* history: the set the object was constructed with
    steps,              \* history: AdvanceOne() executions since construction
    last                \* history: the last call, its argument, pre-state and result

vars == <<LiveCells, gen, LiveCellsNextGen, LiveCells0, steps, last>>

(***************************************************************************)
(* Bounds of the model.                                                    *)
(***************************************************************************)
\* No call advances the game beyond generation MaxGen.
MaxGen == 3

\* Coordinates compared with each other, and the values an uninitialised int
\* may hold, lie in -MaxCoord..MaxCoord.
MaxCoord == 1

\* The strings passed to Centre have at most MaxIn characters, and the length
\* asked for is at most MaxLength.
MaxIn == 2

MaxLength == 5

(***************************************************************************)
(* struct Coordinate                                                       *)
(***************************************************************************)
\* Coordinate::Coordinate(int X_, int Y_)
Coordinate(X_, Y_) == [X |-> X_, Y |-> Y_]

\* The largest and the smallest value of the 32-bit int of the members X, Y.
IntMax == 2147483647

IntMin == -IntMax - 1

\* The values an int that was never assigned may hold: every int.
IndeterminateInt == IntMin..IntMax

\* The ints from lo to hi, as one outcome of a read: the member holds some
\* value of the range, any of them.
Range(lo, hi) == [lo |-> lo, hi |-> hi]

\* The range holds the int v.
Holds(range, v) == range.lo <= v /\ v <= range.hi

\* The outcomes of a read of an int that was never assigned.  Every int is
\* an outcome: the ints within MaxCoord of 0 each on their own, the ints
\* below them as one range and the ints above them as another.
IndeterminateRanges ==
    {Range(IntMin, -MaxCoord - 1), Range(MaxCoord + 1, IntMax)}
        \cup {Range(v, v) : v \in -MaxCoord..MaxCoord}

\* The ranges leave out no member of IndeterminateInt: they start at IntMin,
\* end at IntMax, and each one that ends before IntMax is followed by one
\* that starts at the next int.
CoversIndeterminateInt(ranges) ==
    /\ \E r \in ranges : r.lo = IntMin
    /\ \A r \in ranges :
           /\ r.lo \in IndeterminateInt /\ r.hi \in IndeterminateInt
           /\ r.lo <= r.hi
           /\ IF r.hi = IntMax THEN TRUE
                               ELSE \E q \in ranges : q.lo = r.hi + 1

\* Coordinate::Coordinate(): the body declares two locals X and Y and sets
\* them to 0; the members X and Y are not assigned, so a read of either
\* gives any int, whatever the other gives.
CoordinateDefault ==
    LET X == 0
        Y == 0
    IN  [X : IndeterminateRanges, Y : IndeterminateRanges]

\* operator< with the second test lacking X == xy.X.
LessWithoutEqualX(a, xy) ==
    IF a.X < xy.X THEN TRUE
    ELSE IF a.Y < xy.Y THEN TRUE
    ELSE FALSE

\* Coordinate::operator==
Equal(a, xy) ==
    IF a.X = xy.X /\ a.Y = xy.Y THEN TRUE ELSE FALSE

\* Coordinate::operator<
Less(a, xy) ==
    IF a.X < xy.X THEN TRUE
    ELSE IF a.X = xy.X /\ a.Y < xy.Y THEN TRUE
    ELSE FALSE

\* The characters of a stream are one-character strings; the backspace
\* character '\b' is written as the string below.
Backspace == "\\b"

DecimalDigit == <<"0", "1", "2", "3", "4", "5", "6", "7", "8", "9">>

\* out << n for an unsigned value: its decimal digits, no leading zero.
RECURSIVE PrintNat(_)
PrintNat(n) ==
    IF n < 10 THEN <<DecimalDigit[n + 1]>>
    ELSE PrintNat(n \div 10) \o <<DecimalDigit[(n % 10) + 1]>>

\* out << i for an int: a minus sign for a negative value, then the digits.
PrintInt(i) == IF i < 0 THEN <<"-">> \o PrintNat(-i) ELSE PrintNat(i)

\* operator<<(std::ostream&, const Coordinate&)
PrintCoordinate(xy) ==
    <<"(">> \o PrintInt(xy.X) \o <<",">> \o PrintInt(xy.Y) \o <<")">>

(***************************************************************************)
(* class Life: private helpers                                             *)
(***************************************************************************)
\* Neighbours with the north neighbour given the south neighbour's offset.
NeighboursNorthAsSouth(xy) ==
    {Coordinate(xy.X - 1, xy.Y - 1), Coordinate(xy.X - 1, xy.Y),
     Coordinate(xy.X - 1, xy.Y + 1), Coordinate(xy.X, xy.Y - 1),
     Coordinate(xy.X, xy.Y - 1), Coordinate(xy.X + 1, xy.Y - 1),
     Coordinate(xy.X + 1, xy.Y), Coordinate(xy.X + 1, xy.Y + 1)}

\* Neighbours with every offset doubled.
NeighboursTwoAway(xy) ==
    {Coordinate(xy.X - 2, xy.Y - 2), Coordinate(xy.X - 2, xy.Y),
     Coordinate(xy.X - 2, xy.Y + 2), Coordinate(xy.X, xy.Y - 2),
     Coordinate(xy.X, xy.Y + 2), Coordinate(xy.X + 2, xy.Y - 2),
     Coordinate(xy.X + 2, xy.Y), Coordinate(xy.X + 2, xy.Y + 2)}

Neighbours(xy) ==
    LET SW == Coordinate(xy.X - 1, xy.Y - 1)
        W  == Coordinate(xy.X - 1, xy.Y)
        NW == Coordinate(xy.X - 1, xy.Y + 1)
        S  == Coordinate(xy.X, xy.Y - 1)
        N  == Coordinate(xy.X, xy.Y + 1)
        SE == Coordinate(xy.X + 1, xy.Y - 1)
        E  == Coordinate(xy.X + 1, xy.Y)
        NE == Coordinate(xy.X + 1, xy.Y + 1)
    IN  {SW, W, NW, S, N, SE, E, NE}

\* AllDeadNeighbours without the set difference.
AllNeighbours(live) == UNION {Neighbours(it) : it \in live}

\* The union of the neighbours of every live cell, minus the live cells.
AllDeadNeighbours(live) ==
    LET dn == UNION {Neighbours(it) : it \in live}
    IN  dn \ live

\* Birth with the test count.size() >= 3.
BirthAtLeastThree(live, nextgen) ==
    nextgen \cup
        {it \in AllDeadNeighbours(live) :
            Cardinality(Neighbours(it) \cap live) >= 3}

\* LiveCellsNextGen after Birth(): every dead neighbour with exactly 3 live
\* neighbours is inserted.
Birth(live, nextgen) ==
    LET DeadCells == AllDeadNeighbours(live)
    IN  nextgen \cup
            {it \in DeadCells : Cardinality(Neighbours(it) \cap live) = 3}

\* SurvivalAndDeath with the test count.size() == 3 alone.
SurvivalOnlyThree(live, nextgen) ==
    nextgen \cup {it \in live : Cardinality(Neighbours(it) \cap live) = 3}

\* SurvivalAndDeath with the test count.size() == 2 alone.
SurvivalOnlyTwo(live, nextgen) ==
    nextgen \cup {it \in live : Cardinality(Neighbours(it) \cap live) = 2}

\* LiveCellsNextGen after SurvivalAndDeath(): every live cell with 2 or 3
\* live neighbours is inserted.
SurvivalAndDeath(live, nextgen) ==
    nextgen \cup
        {it \in live : \/ Cardinality(Neighbours(it) \cap live) = 2
                       \/ Cardinality(Neighbours(it) \cap live) = 3}

(***************************************************************************)
(* class Life: the object and its public member functions, as functions    *)
(* of the object's state s = [LiveCells, gen, LiveCellsNextGen].           *)
(***************************************************************************)
\* A constructor that also inserts a default coordinate (0,0).
LifeWithOrigin(LiveCells_) ==
    [LiveCells |-> LiveCells_ \cup {Coordinate(0, 0)}, gen |-> 0,
     LiveCellsNextGen |-> {}]

\* Life::Life(LiveCells_)
Life(LiveCells_) ==
    [LiveCells |-> LiveCells_, gen |-> 0, LiveCellsNextGen |-> {}]

\* gen += 2
GenIncrementByTwo(g) == g + 2

\* gen += 1
GenIncrement(g) == g + 1

\* The call Birth() on the object: it inserts into LiveCellsNextGen only.
BirthCall(s) ==
    [s EXCEPT !.LiveCellsNextGen = Birth(s.LiveCells, s.LiveCellsNextGen)]

\* The call SurvivalAndDeath() on the object: it inserts into
\* LiveCellsNextGen only.
SurvivalAndDeathCall(s) ==
    [s EXCEPT !.LiveCellsNextGen =
                  SurvivalAndDeath(s.LiveCells, s.LiveCellsNextGen)]

\* AdvanceOne without the statement that empties LiveCellsNextGen.
AdvanceOneTraceNoErase(s) ==
    LET afterBirth    == BirthCall(s)
        afterSurvival == SurvivalAndDeathCall(afterBirth)
        afterAssign   == [afterSurvival EXCEPT
                              !.LiveCells = afterSurvival.LiveCellsNextGen]
        afterGen      == [afterAssign EXCEPT !.gen = GenIncrement(@)]
    IN  <<afterBirth, afterSurvival, afterAssign, afterAssign, afterGen>>

\* The object after each of the five statements of Life::AdvanceOne().
AdvanceOneTrace(s) ==
    LET afterBirth    == BirthCall(s)
        afterSurvival == SurvivalAndDeathCall(afterBirth)
        afterAssign   == [afterSurvival EXCEPT
                              !.LiveCells = afterSurvival.LiveCellsNextGen]
        afterErase    == [afterAssign EXCEPT !.LiveCellsNextGen = {}]
        afterGen      == [afterErase EXCEPT !.gen = GenIncrement(@)]
    IN  <<afterBirth, afterSurvival, afterAssign, afterErase, afterGen>>

\* Life::AdvanceOne(): the object on return.
AdvanceOneState(s) == AdvanceOneTrace(s)[5]

\* while (gen <= n)
AdvanceToContinuesInclusive(g, n) == g <= n

\* while (gen + 1 < n)
AdvanceToContinuesShort(g, n) == g + 1 < n

\* The loop condition of AdvanceTo.
AdvanceToContinues(g, n) == g < n

\* AdvanceTo with the loop as do { AdvanceOne(); } while (gen < n);
RECURSIVE AdvanceToDoWhile(_, _)
AdvanceToDoWhile(s, n) ==
    LET t == AdvanceOneState(s)
    IN  IF AdvanceToContinues(t.gen, n)
        THEN LET r == AdvanceToDoWhile(t, n)
             IN  [state |-> r.state, calls |-> r.calls + 1]
        ELSE [state |-> t, calls |-> 1]

\* Life::AdvanceTo(n): while (gen < n) AdvanceOne();
\* The object on return, and the number of AdvanceOne() calls the loop made.
RECURSIVE AdvanceToRun(_, _)
AdvanceToRun(s, n) ==
    IF AdvanceToContinues(s.gen, n)
    THEN LET r == AdvanceToRun(AdvanceOneState(s), n)
         IN  [state |-> r.state, calls |-> r.calls + 1]
    ELSE [state |-> s, calls |-> 0]

\* Gen returning the generation about to be computed.
GenResultNext(s) == s.gen + 1

\* Life::Gen()
GenResult(s) == s.gen

\* Life::cardLiveCells()
cardLiveCellsResult(s) == Cardinality(s.LiveCells)

\* The elements of a std::set<Coordinate> in iteration order: ascending by
\* Coordinate::operator<.
RECURSIVE InOrder(_)
InOrder(cells) ==
    IF cells = {} THEN <<>>
    ELSE LET first == CHOOSE it \in cells :
                          \A other \in cells \ {it} : Less(it, other)
         IN  <<first>> \o InOrder(cells \ {first})

\* The loop of operator<< for Life: out << *it << " , " for every cell.
RECURSIVE PrintCells(_)
PrintCells(its) ==
    IF its = <<>> THEN <<>>
    ELSE PrintCoordinate(Head(its)) \o <<" ", ",", " ">>
             \o PrintCells(Tail(its))

\* operator<<(std::ostream&, const Life&): the characters written to out.
PrintLife(s) ==
    IF Cardinality(s.LiveCells) = 0 THEN <<"{", "}">>
    ELSE <<"{">> \o PrintCells(InOrder(s.LiveCells))
             \o <<Backspace, Backspace, Backspace>> \o <<"}">>

(***************************************************************************)
(* Centre                                                                  *)
(***************************************************************************)
\* std::string pad(count, 42): count asterisks.
Pad(count) == [i \in 1..count |-> "*"]

\* Centre(in, length), for length >= in.length() as its assert demands.
Centre(in, length) ==
    LET pad == Pad((length - Len(in)) \div 2)
    IN  pad \o in \o pad

(***************************************************************************)
(* The state machine.                                                      *)
(***************************************************************************)
\* The cells an initial configuration is drawn from: the origin and the eight
\* cells around it, where Scenario0 .. Scenario6 place their live cells.  The
\* 512 configurations give the origin every number of live neighbours.
Window == {Coordinate(x, y) : x \in {-1, 0, 1}, y \in {-1, 0, 1}}

Self == [LiveCells |-> LiveCells, gen |-> gen,
         LiveCellsNextGen |-> LiveCellsNextGen]

\* The record of a call: its name and argument, the state it was made in, the
\* number of AdvanceOne() executions it made, what it returned, the object
\* after each statement (of a direct AdvanceOne() call), and whether
\* it is an AdvanceTo(n) that directly follows an AdvanceTo(n) with the same
\* n, with the number of AdvanceOne() executions that earlier call made.
Call(op, arg, calls, ret, trace) ==
    LET again == op = "AdvanceTo" /\ last.op = "AdvanceTo" /\ arg = last.arg
    IN  [op |-> op, arg |-> arg, preLive |-> LiveCells, preGen |-> gen,
         preNextGen |-> LiveCellsNextGen,
         calls |-> calls, ret |-> ret, trace |-> trace, again |-> again,
         firstCalls |-> IF again THEN last.calls ELSE 0]

Init ==
    \E LiveCells_ \in SUBSET Window :
        /\ LiveCells = Life(LiveCells_).LiveCells
        /\ gen = Life(LiveCells_).gen
        /\ LiveCellsNextGen = Life(LiveCells_).LiveCellsNextGen
        /\ LiveCells0 = LiveCells_
        /\ steps = 0
        /\ last = [op |-> "Life", arg |-> 0, preLive |-> LiveCells_,
                   preGen |-> 0, preNextGen |-> {}, calls |-> 0, ret |-> 0,
                   trace |-> <<>>, again |-> FALSE,
                   firstCalls |-> 0]

\* Life::AdvanceOne().  The guard caps the generation counter at MaxGen.
AdvanceOne ==
    /\ gen < MaxGen
    /\ \E t \in {AdvanceOneState(Self)} :
           /\ LiveCells' = t.LiveCells
           /\ gen' = t.gen
           /\ LiveCellsNextGen' = t.LiveCellsNextGen
    /\ steps' = steps + 1
    /\ last' = Call("AdvanceOne", 0, 1, 0, AdvanceOneTrace(Self))
    /\ UNCHANGED LiveCells0

\* Life::AdvanceTo(n), the whole loop; Next draws n from 0..MaxGen.
AdvanceTo(n) ==
    /\ \E r \in {AdvanceToRun(Self, n)} :
           /\ LiveCells' = r.state.LiveCells
           /\ gen' = r.state.gen
           /\ LiveCellsNextGen' = r.state.LiveCellsNextGen
           /\ steps' = steps + r.calls
           /\ last' = Call("AdvanceTo", n, r.calls, 0, <<>>)
    /\ UNCHANGED LiveCells0

\* Life::Gen()
Gen ==
    /\ last' = Call("Gen", 0, 0, GenResult(Self), <<>>)
    /\ UNCHANGED <<LiveCells, gen, LiveCellsNextGen, LiveCells0, steps>>

\* Life::cardLiveCells()
cardLiveCells ==
    /\ last' = Call("cardLiveCells", 0, 0, cardLiveCellsResult(Self), <<>>)
    /\ UNCHANGED <<LiveCells, gen, LiveCellsNextGen, LiveCells0, steps>>

\* out << Game
PrintGame ==
    /\ last' = Call("Print", 0, 0, PrintLife(Self), <<>>)
    /\ UNCHANGED <<LiveCells, gen, LiveCellsNextGen, LiveCells0, steps>>

Next ==
    \/ AdvanceOne
    \/ \E n \in 0..MaxGen : AdvanceTo(n)
    \/ Gen
    \/ cardLiveCells
    \/ PrintGame

Spec == Init /\ [][Next]_vars

(***************************************************************************)
(* The value types and free functions, called beside a game that is        *)
(* constructed empty and left alone.  Their results depend on their        *)
(* arguments only, so a behaviour makes one call (FirstCall) and the       *)
(* behaviours together make every call.                                    *)
(***************************************************************************)
FirstCall == last.op = "Life"

Coordinates ==
    {Coordinate(x, y) : x \in -MaxCoord..MaxCoord, y \in -MaxCoord..MaxCoord}

RECURSIVE StringsOfLength(_)
StringsOfLength(k) ==
    IF k = 0 THEN {<<>>}
    ELSE {<<ch>> \o str : ch \in {"S", "_", "*"}, str \in StringsOfLength(k - 1)}

Strings == UNION {StringsOfLength(k) : k \in 0..MaxIn}

InitValues ==
    /\ LiveCells = Life({}).LiveCells
    /\ gen = Life({}).gen
    /\ LiveCellsNextGen = Life({}).LiveCellsNextGen
    /\ LiveCells0 = {}
    /\ steps = 0
    /\ last = [op |-> "Life", arg |-> 0, preLive |-> {},
               preGen |-> 0, preNextGen |-> {}, calls |-> 0, ret |-> 0,
               trace |-> <<>>, again |-> FALSE, firstCalls |-> 0]

\* a < b, b < a, a == b, a < a, b < c and a < c for three coordinates.
Compare ==
    /\ FirstCall
    /\ \E a, b, c \in Coordinates :
           last' = Call("Compare", <<a, b, c>>, 0,
                        [ab |-> Less(a, b), ba |-> Less(b, a),
                         eq |-> Equal(a, b), aa |-> Less(a, a),
                         bc |-> Less(b, c), ac |-> Less(a, c)], <<>>)
    /\ UNCHANGED <<LiveCells, gen, LiveCellsNextGen, LiveCells0, steps>>

\* Centre(in, length); the guard is its assert.
CentreCall ==
    /\ FirstCall
    /\ \E in \in Strings, length \in 0..MaxLength :
           /\ length >= Len(in)
           /\ last' = Call("Centre", <<in, length>>, 0, Centre(in, length),
                           <<>>)
    /\ UNCHANGED <<LiveCells, gen, LiveCellsNextGen, LiveCells0, steps>>

\* Coordinate xy; then a read of xy.X and xy.Y.
DefaultCoordinate ==
    /\ FirstCall
    /\ CoversIndeterminateInt(IndeterminateRanges)
    /\ \E xy \in CoordinateDefault :
           last' = Call("Coordinate", 0, 0, xy, <<>>)
    /\ UNCHANGED <<LiveCells, gen, LiveCellsNextGen, LiveCells0, steps>>

NextValues ==
    \/ Compare
    \/ CentreCall
    \/ DefaultCoordinate

SpecValues == InitValues /\ [][NextValues]_vars

(***************************************************************************)
(* Definitions used to state the properties.  They do not use Neighbours:  *)
(* adjacency is stated directly on the coordinates.                        *)
(***************************************************************************)
Abs(i) == IF i < 0 THEN -i ELSE i

\* The Chebyshev distance of two cells.
Chebyshev(a, b) ==
    IF Abs(a.X - b.X) > Abs(a.Y - b.Y) THEN Abs(a.X - b.X) ELSE Abs(a.Y - b.Y)

\* The number of cells of L that are adjacent to c.
LiveNeighbourCount(c, L) == Cardinality({d \in L : Chebyshev(c, d) = 1})

\* A region of the grid that contains every cell that can be alive within
\* MaxGen generations, and every neighbour of such a cell, with a margin.
Box ==
    {Coordinate(x, y) : x \in -(MaxGen + 3)..(MaxGen + 3),
                        y \in -(MaxGen + 3)..(MaxGen + 3)}

(***************************************************************************)
(* C1: survival rule.  After AdvanceOne(), a cell that was alive before    *)
(* the call is alive if and only if exactly 2 or exactly 3 of its 8        *)
(* neighbours were alive before the call.                                  *)
(***************************************************************************)
C1_SurvivalRule ==
    last.op = "AdvanceOne" =>
        \A c \in last.preLive :
            c \in LiveCells <=> LiveNeighbourCount(c, last.preLive) \in {2, 3}

\* One AdvanceOne() in which a cell with 2 or 3 live neighbours survived, a
\* cell with at most 1 died and a cell with at least 4 died.
C1_Witness ==
    /\ last.op = "AdvanceOne"
    /\ \E a, b, c \in last.preLive :
           /\ LiveNeighbourCount(a, last.preLive) \in {2, 3} /\ a \in LiveCells
           /\ LiveNeighbourCount(b, last.preLive) <= 1 /\ b \notin LiveCells
           /\ LiveNeighbourCount(c, last.preLive) >= 4 /\ c \notin LiveCells

(***************************************************************************)
(* C2: birth rule.  After AdvanceOne(), a cell of the grid that was dead   *)
(* before the call, adjacent to a live cell or not, is alive if and only   *)
(* if exactly 3 of its 8 neighbours were alive before the call.            *)
(***************************************************************************)
C2_BirthRule ==
    last.op = "AdvanceOne" =>
        /\ LiveCells \subseteq Box
        /\ \A c \in Box \ last.preLive :
               c \in LiveCells <=> LiveNeighbourCount(c, last.preLive) = 3

\* One AdvanceOne() in which a dead cell with 3 live neighbours was born, and
\* dead cells with 0, with 2 and with at least 4 live neighbours stayed dead.
C2_Witness ==
    LET Dead == Box \ last.preLive
        N(c) == LiveNeighbourCount(c, last.preLive)
    IN  /\ last.op = "AdvanceOne"
        /\ \E a \in Dead : N(a) = 3 /\ a \in LiveCells
        /\ \E b \in Dead : N(b) = 2 /\ b \notin LiveCells
        /\ \E c \in Dead : N(c) >= 4 /\ c \notin LiveCells
        /\ \E d \in Dead : N(d) = 0 /\ d \notin LiveCells

(***************************************************************************)
(* C3: the generation counter is 0 right after construction, AdvanceOne()  *)
(* increases it by exactly 1, and no call of AdvanceOne(), AdvanceTo(n),   *)
(* Gen() or cardLiveCells() decreases it.                                  *)
(***************************************************************************)
C3_GenerationCounter ==
    /\ last.op = "Life" => gen = 0
    /\ last.op = "AdvanceOne" => gen = last.preGen + 1
    /\ gen >= last.preGen

\* An AdvanceOne() made at a generation other than 0.
C3_Witness ==
    last.op = "AdvanceOne" /\ last.preGen = 2 /\ gen = 3

(***************************************************************************)
(* C4: AdvanceTo(n) called at generation g < n makes exactly n - g         *)
(* AdvanceOne() steps: on return the generation is n and the live set is   *)
(* the pre-call live set advanced by n - g single generations.             *)
(***************************************************************************)
\* The object s after k calls of AdvanceOne().
RECURSIVE AdvanceOneTimes(_, _)
AdvanceOneTimes(s, k) ==
    IF k = 0 THEN s ELSE AdvanceOneTimes(AdvanceOneState(s), k - 1)

C4_AdvanceToReachesTarget ==
    (last.op = "AdvanceTo" /\ last.preGen < last.arg) =>
        /\ gen = last.arg
        /\ last.calls = last.arg - last.preGen
        /\ LiveCells =
             AdvanceOneTimes([LiveCells |-> last.preLive, gen |-> last.preGen,
                              LiveCellsNextGen |-> {}],
                             last.arg - last.preGen).LiveCells

\* An AdvanceTo(n) made after generation 0 that advanced at least two
\* generations and changed a live set that did not die out.
C4_Witness ==
    /\ last.op = "AdvanceTo"
    /\ last.preGen >= 1
    /\ last.arg >= last.preGen + 2
    /\ LiveCells # last.preLive
    /\ LiveCells # {}

(***************************************************************************)
(* C5: AdvanceTo(n) called with n <= gen changes neither the live set nor  *)
(* the generation counter.                                                 *)
(***************************************************************************)
C5_AdvanceToPastIsNoOp ==
    (last.op = "AdvanceTo" /\ last.arg <= last.preGen) =>
        /\ LiveCells = last.preLive
        /\ gen = last.preGen
        /\ last.calls = 0

\* An AdvanceTo(n) with n at the current generation, made on a game that one
\* more AdvanceOne() would have changed.
C5_Witness ==
    /\ last.op = "AdvanceTo"
    /\ last.arg = last.preGen
    /\ last.preGen >= 1
    /\ AdvanceOneState(Self).LiveCells # LiveCells

(***************************************************************************)
(* C6: AdvanceTo is idempotent.  An AdvanceTo(n) that directly follows an  *)
(* AdvanceTo(n) with the same n leaves the live set and the generation as  *)
(* the first call left them.                                               *)
(***************************************************************************)
C6_AdvanceToIdempotent ==
    last.again => (LiveCells = last.preLive /\ gen = last.preGen)

\* A second AdvanceTo(n) after a first one that advanced the game, on a game
\* that one more AdvanceOne() would have changed.
C6_Witness ==
    /\ last.again
    /\ last.firstCalls >= 2
    /\ AdvanceOneState(Self).LiveCells # LiveCells

(***************************************************************************)
(* C7: a game constructed with no live cells has no live cells in any      *)
(* reachable state, and its generation is the number of AdvanceOne()       *)
(* executions made.                                                        *)
(***************************************************************************)
C7_EmptyStaysEmpty ==
    LiveCells0 = {} => (LiveCells = {} /\ gen = steps)

\* The empty game after several AdvanceOne() calls.
C7_Witness ==
    LiveCells0 = {} /\ last.op = "AdvanceOne" /\ steps >= 2

(***************************************************************************)
(* C8: the blinker has period 2.  Started from {(0,0),(1,0),(-1,0)}, the   *)
(* live set is {(0,0),(0,1),(0,-1)} after an odd number of AdvanceOne()    *)
(* executions and {(0,0),(1,0),(-1,0)} after an even number, and after two *)
(* the generation is 2.                                                    *)
(***************************************************************************)
BlinkerHorizontal == {Coordinate(0, 0), Coordinate(1, 0), Coordinate(-1, 0)}

BlinkerVertical == {Coordinate(0, 0), Coordinate(0, 1), Coordinate(0, -1)}

C8_BlinkerPeriodTwo ==
    LiveCells0 = BlinkerHorizontal =>
        /\ steps % 2 = 1 => LiveCells = BlinkerVertical
        /\ steps % 2 = 0 => LiveCells = BlinkerHorizontal
        /\ steps = 2 => gen = 2

\* The blinker after three AdvanceOne() executions, the last a direct call.
C8_Witness ==
    /\ LiveCells0 = BlinkerHorizontal
    /\ last.op = "AdvanceOne"
    /\ steps = 3
    /\ LiveCells = BlinkerVertical

(***************************************************************************)
(* C9: Neighbours(c) is a set of exactly 8 coordinates, none equal to c,   *)
(* each at Chebyshev distance exactly 1 from c: the cells c + (dX,dY) for  *)
(* dX, dY in {-1,0,1} other than (0,0).  It is stated of every cell that   *)
(* AdvanceOne() passed to Neighbours: the cells that were alive and their  *)
(* dead neighbours.                                                        *)
(***************************************************************************)
C9_NeighboursAreTheEightAdjacent ==
    last.op = "AdvanceOne" =>
        \A c \in last.preLive \cup AllDeadNeighbours(last.preLive) :
            \A nbrs \in {Neighbours(c)} :
                /\ Cardinality(nbrs) = 8
                /\ c \notin nbrs
                /\ \A d \in nbrs : Chebyshev(c, d) = 1
                /\ nbrs = {Coordinate(c.X + dX, c.Y + dY) :
                               dX \in {-1, 0, 1}, dY \in {-1, 0, 1}} \ {c}

\* An AdvanceOne() on a game that had grown beyond the initial window on the
\* negative and on the positive side.
C9_Witness ==
    /\ last.op = "AdvanceOne"
    /\ \E c \in last.preLive : c.X < -1
    /\ \E c \in last.preLive : c.Y > 1

(***************************************************************************)
(* C11: Gen() returns the generation counter and cardLiveCells() the       *)
(* number of live cells, and neither changes the live set, the generation  *)
(* counter or the next-generation buffer.                                  *)
(***************************************************************************)
C11_QueriesReturnAndPreserve ==
    /\ last.op = "Gen" => last.ret = gen
    /\ last.op = "cardLiveCells" => last.ret = Cardinality(LiveCells)
    /\ last.op \in {"Gen", "cardLiveCells"} =>
           /\ LiveCells = last.preLive
           /\ gen = last.preGen
           /\ LiveCellsNextGen = last.preNextGen

\* Gen() on a game that has advanced and still has live cells.
C11_Witness ==
    last.op = "Gen" /\ last.ret >= 2 /\ LiveCells # {}

(***************************************************************************)
(* C12: AllDeadNeighbours() is exactly the set of cells that are adjacent  *)
(* to at least one live cell and are not alive themselves.  It is stated   *)
(* of the live set of every AdvanceOne(), whose Birth() calls it.  The     *)
(* cells are taken from Box, which holds every live cell with a margin, so *)
(* a result with a cell outside Box is not equal to the set either.        *)
(***************************************************************************)
C12_AllDeadNeighboursExact ==
    last.op = "AdvanceOne" =>
        \A deadnbrs \in {AllDeadNeighbours(last.preLive)} :
            deadnbrs =
                {c \in Box :
                    /\ c \notin last.preLive
                    /\ \E d \in last.preLive : Chebyshev(c, d) = 1}

\* An AdvanceOne() on a game past generation 0 with adjacent live cells, so
\* that the union of the neighbour sets contained live cells.
C12_Witness ==
    /\ last.op = "AdvanceOne"
    /\ last.preGen >= 1
    /\ \E a, b \in last.preLive : Chebyshev(a, b) = 1
    /\ AllDeadNeighbours(last.preLive) # {}

(***************************************************************************)
(* C13: AdvanceOne() works on a fixed snapshot.  LiveCellsNextGen is empty *)
(* in every state between calls, so on entry to and on return from every  *)
(* AdvanceOne(); LiveCells is the pre-call set after Birth() and after     *)
(* SurvivalAndDeath(); and the new live set is the next generation of the  *)
(* pre-call set alone.                                                     *)
(***************************************************************************)
\* The next generation of L by the rules B3/S23, from the coordinates.
NextGeneration(L) ==
    {c \in Box : IF c \in L THEN LiveNeighbourCount(c, L) \in {2, 3}
                            ELSE LiveNeighbourCount(c, L) = 3}

C13_FixedSnapshot ==
    /\ LiveCellsNextGen = {}
    /\ last.op = "AdvanceOne" =>
           /\ last.preNextGen = {}
           /\ last.trace[1].LiveCells = last.preLive
           /\ last.trace[2].LiveCells = last.preLive
           /\ LiveCells = NextGeneration(last.preLive)

\* An AdvanceOne() after generation 0 in which Birth() filled the buffer,
\* cells were born and cells died.
C13_Witness ==
    /\ last.op = "AdvanceOne"
    /\ last.preGen >= 1
    /\ last.trace[1].LiveCellsNextGen # {}
    /\ LiveCells \ last.preLive # {}
    /\ last.preLive \ LiveCells # {}

(***************************************************************************)
(* C14: growth is local.  Every cell alive after AdvanceOne() was alive    *)
(* before the call or is adjacent to a cell that was; hence after k        *)
(* AdvanceOne() executions every live cell is within Chebyshev distance k  *)
(* of a cell of the initial live set.                                      *)
(***************************************************************************)
C14_LocalGrowth ==
    /\ last.op = "AdvanceOne" =>
           \A c \in LiveCells :
               \/ c \in last.preLive
               \/ \E d \in last.preLive : Chebyshev(c, d) = 1
    /\ \A c \in LiveCells : \E d \in LiveCells0 : Chebyshev(c, d) <= steps

\* After at least two AdvanceOne() executions, the last a direct call that
\* gave birth to a cell, a live cell that is two or more away from every
\* cell of the initial live set.
C14_Witness ==
    /\ last.op = "AdvanceOne"
    /\ steps >= 2
    /\ LiveCells \ last.preLive # {}
    /\ \E c \in LiveCells : \A d \in LiveCells0 : Chebyshev(c, d) >= 2

(***************************************************************************)
(* C16: printing a game writes an opening brace, the live cells in         *)
(* ascending lexicographic order, each as (X,Y) and separated by " , ",    *)
(* and a closing brace directly after the last cell; the empty game is     *)
(* written as {}.                                                          *)
(***************************************************************************)
\* The cells of L in ascending order by X, then Y.
RECURSIVE Ascending(_)
Ascending(L) ==
    IF L = {} THEN <<>>
    ELSE LET m == CHOOSE c \in L :
                      \A d \in L : c.X < d.X \/ (c.X = d.X /\ c.Y <= d.Y)
         IN  <<m>> \o Ascending(L \ {m})

\* The cells of the sequence as (X,Y), with " , " between two cells.
RECURSIVE Separated(_)
Separated(cs) ==
    IF cs = <<>> THEN <<>>
    ELSE IF Len(cs) = 1 THEN PrintCoordinate(cs[1])
    ELSE PrintCoordinate(cs[1]) \o <<" ", ",", " ">> \o Separated(Tail(cs))

Rendering(L) == <<"{">> \o Separated(Ascending(L)) \o <<"}">>

C16_PrintFormat ==
    last.op = "Print" => last.ret = Rendering(last.preLive)

(***************************************************************************)
(* C15: the ordering of coordinates is a strict total order, lexicographic *)
(* by X then Y.  For coordinates a, b exactly one of a < b, b < a, a == b  *)
(* holds; a == b iff both components match; a < b iff a.X < b.X, or        *)
(* a.X = b.X and a.Y < b.Y; the relation is irreflexive and transitive.    *)
(***************************************************************************)
C15_LexicographicOrder ==
    last.op = "Compare" =>
        LET a == last.arg[1]
            b == last.arg[2]
            r == last.ret
        IN  /\ \/ r.ab /\ ~r.ba /\ ~r.eq
               \/ ~r.ab /\ r.ba /\ ~r.eq
               \/ ~r.ab /\ ~r.ba /\ r.eq
            /\ r.eq <=> (a.X = b.X /\ a.Y = b.Y)
            /\ r.ab <=> (a.X < b.X \/ (a.X = b.X /\ a.Y < b.Y))
            /\ ~r.aa
            /\ (r.ab /\ r.bc) => r.ac

\* a < b decided by Y alone, b < c decided by X, and so a < c.
C15_Witness ==
    /\ last.op = "Compare"
    /\ last.arg[1].X = last.arg[2].X
    /\ last.arg[2].X < last.arg[3].X
    /\ last.arg[2].Y > last.arg[3].Y
    /\ last.ret.ab /\ last.ret.bc /\ last.ret.ac

(***************************************************************************)
(* C17: Centre(in, length), called with length >= in.length(), returns a   *)
(* string of exactly the given length: in with the same number of          *)
(* asterisks on either side.                                               *)
(***************************************************************************)
C17_CentreHasGivenLength ==
    last.op = "Centre" =>
        /\ Len(last.ret) = last.arg[2]
        /\ \E k \in 0..MaxLength :
               last.ret = [i \in 1..k |-> "*"] \o last.arg[1]
                              \o [i \in 1..k |-> "*"]

(***************************************************************************)
(* C18: the default constructor Coordinate() initialises the coordinate to *)
(* (0,0): after it the members X and Y are both 0, that is, 0 is the only  *)
(* value a read of either may give.                                        *)
(***************************************************************************)
C18_DefaultCoordinateIsOrigin ==
    last.op = "Coordinate" =>
        /\ last.ret.X = Range(0, 0)
        /\ last.ret.Y = Range(0, 0)

=============================================================================
